---- MODULE Spec2Model ----
(***************************************************************************)
(* N4 flight software: the state-evaluation pipeline of the flight         *)
(* computer.  Two firmware revisions are modelled:                         *)
(*   "hil"    n4-flight-software/src/main.cpp, the revision with the       *)
(*            hardware-in-the-loop test system (DAQ / TEST / flight pins); *)
(*   "flight" unnamed/part_001 (first file), the revision without the test *)
(*            system, where the sensor tasks run.                          *)
(* Altitudes are integers (a subset of the float values of the code).      *)
(***************************************************************************)
EXTENDS Integers, Sequences, FiniteSets, TLC

(* ---------------------------- bounds ---------------------------------- *)
\* capacity of the altitude ring buffer (ring_buffer.h is not in the tree)
SIZE_OF_BUFFER == 2
\* capacity of check_state_queue in the model (the code creates it with 10)
TELEMETRY_DATA_QUEUE_LENGTH == 2
\* largest number of rows of the recorded test data file
MaxRows == 4
\* the actuation counters stop counting here
MaxCalls == 2

\* loop iterations of each sensor task that are followed
MaxSamples == 1

\* altitude values a sample may carry
Alts == {-6, 0, 5, 10, 30}

\* altitudes the barometer may report
RawAlts == {0, 30}

\* values the never-written altitude field of a sensor task's packet may hold
Garbage == {-6, 10}

(* ------------------------ program constants --------------------------- *)
LAUNCH_DETECTION_THRESHOLD == 5
LAUNCH_DETECTION_ALTITUDE_WINDOW == 20
APOGEE_DETECTION_THRESHOLD == 5

PRE_FLIGHT_GROUND == 0
POWERED_FLIGHT == 1
COASTING == 2
APOGEE == 3
DROGUE_DEPLOY == 4
DROGUE_DESCENT == 5
MAIN_DEPLOY == 6
MAIN_DESCENT == 7
POST_FLIGHT_GROUND == 8

SAFE_MODE == 0
ARMED_MODE == 1

\* main.cpp:129-134: enum DAQ_STATES
HANDSHAKE == 0
RECEIVE_TEST_DATA == 1
CONFIRM_TEST_DATA == 2
FINISH_DATA_RECEIVE == 3

\* main.cpp:88
NAK_INTERVAL == 4000

\* main.cpp:105
MAX_CSV_LENGTH == 256

\* enum TEST_STATES
DATA_CONSUME == 0
DONE_TESTING == 1

\* enum SYSTEM_CHECK_STATES (custom_test_states.h is not in the tree)
SUB_SYSTEM_CHECK == 0
SUBSYSTEM_DONE_CHECK == 1

\* kalman_filter.h is not in the tree: the start value of the error
\* covariance and the two variances of the filter
InitialErrorCovariance == 1
process_variance_bmp == 1
measurement_variance_bmp == 1

VARIABLES
    firmware,              \* "hil" or "flight": which revision is running
    DEBUG_TO_TERMINAL,     \* defs.h build switch
    LOG_TO_MEMORY,         \* defs.h build switch
    SET_TEST_MODE_PIN,     \* level read on the TEST jumper pin
    SET_DAQ_MODE_PIN,      \* level read on the DAQ jumper pin
    DAQ_MODE, TEST_MODE,
    main_pc,               \* the Arduino main task: "setup", then "loop"
    task,                  \* FreeRTOS task -> "none" | "suspended" | "ready"
    sub_check_state,
    current_test_state,
    replay,                \* the for loop of loop(): [active, row]
    col2,                  \* the altitude column of the recorded file, when
                           \* its content is fixed; << >> when it is any
    check_state_queue,     \* contents of check_state_queue_handle
    operation_mode,
    current_state,
    apogee_flag, main_eject_flag, check_done_flag,
    apogee_val, oldest_val,
    altitude_ring_buffer,
    cfs_pc,                \* where checkFlightState stands in its loop body
    flight_data,           \* the packet checkFlightState last received
    drogue_calls,          \* invocations of drogueChuteDeploy so far
    main_calls,            \* invocations of mainChuteDeploy so far
    cascades,              \* executions of the apogee cascade so far
    telemetry_data_queue,  \* contents of telemetry_data_queue_handle
    log_to_mem_queue,      \* contents of log_to_mem_queue_handle
    debug_to_term_queue,   \* contents of debug_to_term_queue_handle
    acc_data_lcl,          \* readAccelerationTask: the altitude field of its
                           \* packet, which the task never writes
    gps_data_lcl,          \* readGPSTask: the same field of its packet
    gps_pc,                \* readGPSTask: the blocking send it stands at
    estimated_altitude,    \* Kalman filter state (exact fractions)
    error_covariance_bmp,
    status,                \* result of the last step of the barometer read
    a,                     \* the last altitude computed from the barometer
    samples,               \* producer -> loop iterations so far
    received,              \* pairs << task, queue >>: who received from where
    failed_sends,          \* queue -> sends that found it full so far
    kalman_filter_queue_handle, \* "NULL" or "created"
    current_DAQ_state,
    SOH_recvd_flag,
    value,                 \* the number handshakeSerialEvent accumulates
    last_NAK_time,
    test_data_buffer,      \* the characters stored since the last newline
    test_data_serial_index,
    test_data_file,        \* the lines appended to the test data file
    millis,                \* the millisecond clock
    nak_sent,              \* calls of InitXMODEM so far
    serial_rx,             \* characters received on Serial and not yet read
    tx_pending             \* characters the transmitting PC has yet to send

vars == << firmware, DEBUG_TO_TERMINAL, LOG_TO_MEMORY, SET_TEST_MODE_PIN,
           SET_DAQ_MODE_PIN, DAQ_MODE, TEST_MODE, main_pc, task, sub_check_state,
           current_test_state, replay, col2,
           check_state_queue, operation_mode, current_state, apogee_flag,
           main_eject_flag, check_done_flag, apogee_val, oldest_val,
           altitude_ring_buffer, cfs_pc, flight_data, drogue_calls,
           main_calls, cascades, telemetry_data_queue, log_to_mem_queue,
           debug_to_term_queue, acc_data_lcl, gps_data_lcl, gps_pc,
           estimated_altitude, error_covariance_bmp, status, a, samples,
           received,
           failed_sends, kalman_filter_queue_handle, current_DAQ_state,
           SOH_recvd_flag, value, last_NAK_time, test_data_buffer,
           test_data_serial_index, test_data_file, millis, nak_sent,
           serial_rx, tx_pending >>

daq_vars == << current_DAQ_state, SOH_recvd_flag, value, last_NAK_time,
               test_data_buffer, test_data_serial_index, test_data_file,
               millis, nak_sent, serial_rx, tx_pending >>

fsm_vars == << current_state, apogee_flag, main_eject_flag, check_done_flag,
               apogee_val, oldest_val, altitude_ring_buffer, cfs_pc,
               flight_data >>

mode_vars == << firmware, DEBUG_TO_TERMINAL, LOG_TO_MEMORY, SET_TEST_MODE_PIN,
                SET_DAQ_MODE_PIN, DAQ_MODE, TEST_MODE, operation_mode,
                col2, kalman_filter_queue_handle, daq_vars >>

loop_vars == << main_pc, sub_check_state, current_test_state, replay >>

call_vars == << drogue_calls, main_calls >>

kalman_vars == << estimated_altitude, error_covariance_bmp, status, a >>

fan_vars == << telemetry_data_queue, log_to_mem_queue, debug_to_term_queue,
               acc_data_lcl, gps_data_lcl, gps_pc, kalman_vars, samples,
               received, failed_sends >>

\* the four queues created in setup()
QueueNames == { "telemetry_data_queue", "log_to_mem_queue",
                "check_state_queue", "debug_to_term_queue" }

QueueOf(name) ==
    CASE name = "telemetry_data_queue" -> telemetry_data_queue
      [] name = "log_to_mem_queue" -> log_to_mem_queue
      [] name = "check_state_queue" -> check_state_queue
      [] name = "debug_to_term_queue" -> debug_to_term_queue

Tasks == { "readAccelerationTask", "readAltimeterTask", "readGPSTask",
           "checkFlightState", "flightStateCallback",
           "MQTT_TransmitTelemetry", "kalmanFilterTask",
           "debugToTerminalTask", "logToMemory" }

(* ----------------------------- helpers -------------------------------- *)
\* a C comparison used as an integer operand
Bool2Int(b) == IF b THEN 1 ELSE 0

\* float -> int conversion of x/2 (truncation toward zero)
TruncHalf(x) == IF x >= 0 THEN x \div 2 ELSE -((-x) \div 2)

Min(x, y) == IF x <= y THEN x ELSE y

Abs(x) == IF x < 0 THEN -x ELSE x

RECURSIVE GCD(_, _)
GCD(m, n) == IF n = 0 THEN m ELSE GCD(n, m % n)

\* exact fractions << numerator, denominator >> in lowest terms stand for
\* the float values of the filter
Rat(n, d) ==
    LET g == GCD(Abs(n), Abs(d))
        sgn == IF d < 0 THEN -1 ELSE 1
    IN  << sgn * (n \div g), sgn * (d \div g) >>

RatAdd(x, y) == Rat(x[1] * y[2] + y[1] * x[2], x[2] * y[2])
RatSub(x, y) == Rat(x[1] * y[2] - y[1] * x[2], x[2] * y[2])
RatMul(x, y) == Rat(x[1] * y[1], x[2] * y[2])
RatDiv(x, y) == Rat(x[1] * y[2], x[2] * y[1])

RatLess(x, y) == x[1] * y[2] < y[1] * x[2]
RatLeq(x, y) == x[1] * y[2] <= y[1] * x[2]

\* an integer altitude equals a fraction
RatEqInt(i, x) == Len(x) = 2 /\ x[1] = i * x[2]

Producers == { "readAccelerationTask", "readAltimeterTask", "readGPSTask" }

\* a telemetry_type_t as far as state evaluation reads it; src names the
\* sender, kf is the value kalmanFilter returned for the sample (NoKf
\* when kalmanFilter was not called for it)
Packet(src, alt, kf) == [src |-> src, altitude |-> alt, kf |-> kf]

NoKf == << >>

NoPacket == Packet("none", 0, NoKf)

(* ------------------------- ring buffer -------------------------------- *)
\* ring_buffer_init: all slots zero, write cursor 0, nothing stored
ring_buffer_init ==
    [ buffer |-> [i \in 0 .. SIZE_OF_BUFFER - 1 |-> 0], head |-> 0, count |-> 0 ]

\* ring_buffer_put: write at the cursor (over the oldest slot once full)
ring_buffer_put(rb, v) ==
    [ buffer |-> [rb.buffer EXCEPT ![rb.head] = v],
      head   |-> (rb.head + 1) % SIZE_OF_BUFFER,
      count  |-> Min(rb.count + 1, SIZE_OF_BUFFER) ]

ring_buffer_full(rb) == Bool2Int(rb.count = SIZE_OF_BUFFER)

\* ring_buffer_get: the oldest stored value
ring_buffer_get(rb) ==
    rb.buffer[(rb.head + SIZE_OF_BUFFER - rb.count) % SIZE_OF_BUFFER]

(* -------------------- checkFlightState ------------------------------- *)
\* main.cpp:1130-1140 with a branch written at the "COASTING" comment: above
\* the launch window the state becomes COASTING
LaunchState_WithCoasting(alt) ==
    IF alt < LAUNCH_DETECTION_THRESHOLD
    THEN PRE_FLIGHT_GROUND
    ELSE IF alt < LAUNCH_DETECTION_THRESHOLD + LAUNCH_DETECTION_ALTITUDE_WINDOW
         THEN POWERED_FLIGHT
         ELSE COASTING

\* main.cpp:1130-1138: the launch branch; the chained comparison compares
\* the 0/1 result of the first "<" with the top of the window
LaunchState(alt) ==
    IF alt < LAUNCH_DETECTION_THRESHOLD
    THEN PRE_FLIGHT_GROUND
    ELSE IF Bool2Int(LAUNCH_DETECTION_THRESHOLD < alt)
              < LAUNCH_DETECTION_THRESHOLD + LAUNCH_DETECTION_ALTITUDE_WINDOW
         THEN POWERED_FLIGHT
         ELSE current_state

\* main.cpp:1171: the main-deploy range test, a chained comparison again
MainRange(alt) == Bool2Int(LAUNCH_DETECTION_THRESHOLD <= alt) <= apogee_val

\* main.cpp:1152: apogee_val is an int, the right-hand side a float
ApogeeVal(oldest, alt) == TruncHalf((oldest - alt) + 2 * oldest)

\* main.cpp:1149
ApogeeDetected(oldest, alt) == (oldest - alt) >= APOGEE_DETECTION_THRESHOLD

\* main.cpp:1177; part_001:623 tests main_eject_flag alone
MainDescentGuard ==
    main_eject_flag = 1 /\ (firmware = "flight" \/ check_done_flag = 0)

\* the branches of main.cpp:1127 exchanged
ApogeeNotLatched_Inverted == apogee_flag = 1

\* main.cpp:1127: the launch and apogee tests run while this holds, the
\* main deployment tests once it does not
ApogeeNotLatched == apogee_flag # 1

\* main.cpp:1125 with a receive that does not wait: on an empty queue the
\* iteration runs on the sample of the iteration before
CFS_Receive_NoWait ==
    /\ task["checkFlightState"] = "ready"
    /\ cfs_pc = "receive"
    /\ flight_data' = IF check_state_queue # << >>
                      THEN Head(check_state_queue) ELSE flight_data
    /\ check_state_queue' = IF check_state_queue # << >>
                            THEN Tail(check_state_queue) ELSE << >>
    /\ LET alt == flight_data'.altitude IN
       IF ApogeeNotLatched
       THEN /\ current_state' = LaunchState(alt)
            /\ cfs_pc' = "detect"
       ELSE IF MainRange(alt)
            THEN IF main_eject_flag = 0
                 THEN /\ current_state' = MAIN_DEPLOY
                      /\ cfs_pc' = "main_deploy"
                 ELSE IF MainDescentGuard
                      THEN /\ current_state' = MAIN_DESCENT
                           /\ cfs_pc' = "ground"
                      ELSE /\ current_state' = current_state
                           /\ cfs_pc' = "ground"
            ELSE /\ current_state' = current_state
                 /\ cfs_pc' = "ground"
    /\ UNCHANGED << apogee_flag, main_eject_flag, check_done_flag, apogee_val,
                    oldest_val, altitude_ring_buffer, cascades >>

\* xQueueReceive returned a packet: the first write of the iteration
CFS_Receive ==
    /\ task["checkFlightState"] = "ready"
    /\ cfs_pc = "receive"
    /\ check_state_queue # << >>
    /\ flight_data' = Head(check_state_queue)
    /\ check_state_queue' = Tail(check_state_queue)
    /\ LET alt == Head(check_state_queue).altitude IN
       IF ApogeeNotLatched
       THEN /\ current_state' = LaunchState(alt)
            /\ cfs_pc' = "detect"
       ELSE IF MainRange(alt)
            THEN IF main_eject_flag = 0
                 THEN /\ current_state' = MAIN_DEPLOY
                      /\ cfs_pc' = "main_deploy"
                 ELSE IF MainDescentGuard
                      THEN /\ current_state' = MAIN_DESCENT
                           /\ cfs_pc' = "ground"
                      ELSE /\ current_state' = current_state
                           /\ cfs_pc' = "ground"
            ELSE /\ current_state' = current_state
                 /\ cfs_pc' = "ground"
    /\ UNCHANGED << apogee_flag, main_eject_flag, check_done_flag, apogee_val,
                    oldest_val, altitude_ring_buffer, cascades >>

\* main.cpp:1143-1146 with the oldest value read before the push
CFS_Detect_ReadBeforePut ==
    /\ task["checkFlightState"] = "ready"
    /\ cfs_pc = "detect"
    /\ LET alt    == flight_data.altitude
           rb     == ring_buffer_put(altitude_ring_buffer, alt)
           oldest == IF ring_buffer_full(altitude_ring_buffer) = 1
                     THEN ring_buffer_get(altitude_ring_buffer) ELSE oldest_val
       IN /\ altitude_ring_buffer' = rb
          /\ oldest_val' = oldest
          /\ IF ApogeeDetected(oldest, alt) /\ apogee_flag = 0
             THEN /\ apogee_val' = ApogeeVal(oldest, alt)
                  /\ current_state' = APOGEE
                  /\ cascades' = Min(cascades + 1, MaxCalls)
                  /\ cfs_pc' = "apogee"
             ELSE /\ cfs_pc' = "receive"
                  /\ UNCHANGED << apogee_val, current_state, cascades >>
    /\ UNCHANGED << apogee_flag, main_eject_flag, check_done_flag,
                    flight_data, check_state_queue >>

\* main.cpp:1143-1154: push, read the oldest value, test the drop
CFS_Detect ==
    /\ task["checkFlightState"] = "ready"
    /\ cfs_pc = "detect"
    /\ LET alt    == flight_data.altitude
           rb     == ring_buffer_put(altitude_ring_buffer, alt)
           oldest == IF ring_buffer_full(rb) = 1
                     THEN ring_buffer_get(rb) ELSE oldest_val
       IN /\ altitude_ring_buffer' = rb
          /\ oldest_val' = oldest
          /\ IF ApogeeDetected(oldest, alt) /\ apogee_flag = 0
             THEN /\ apogee_val' = ApogeeVal(oldest, alt)
                  /\ current_state' = APOGEE
                  /\ cascades' = Min(cascades + 1, MaxCalls)
                  /\ cfs_pc' = "apogee"
             ELSE /\ cfs_pc' = "receive"
                  /\ UNCHANGED << apogee_val, current_state, cascades >>
    /\ UNCHANGED << apogee_flag, main_eject_flag, check_done_flag,
                    flight_data, check_state_queue >>

\* main.cpp:1158 left out: the cascade goes from APOGEE to DROGUE_DESCENT
CFS_DrogueDeploy_StraightToDescent ==
    /\ task["checkFlightState"] = "ready"
    /\ cfs_pc = "apogee"
    /\ current_state' = DROGUE_DESCENT
    /\ cfs_pc' = "drogue_descent"
    /\ UNCHANGED << apogee_flag, main_eject_flag, check_done_flag, apogee_val,
                    oldest_val, altitude_ring_buffer, flight_data,
                    check_state_queue, cascades >>

\* main.cpp:1158
CFS_DrogueDeploy ==
    /\ task["checkFlightState"] = "ready"
    /\ cfs_pc = "apogee"
    /\ current_state' = DROGUE_DEPLOY
    /\ cfs_pc' = "drogue_deploy"
    /\ UNCHANGED << apogee_flag, main_eject_flag, check_done_flag, apogee_val,
                    oldest_val, altitude_ring_buffer, flight_data,
                    check_state_queue, cascades >>

\* main.cpp:1161
CFS_DrogueDescent ==
    /\ task["checkFlightState"] = "ready"
    /\ cfs_pc = "drogue_deploy"
    /\ current_state' = DROGUE_DESCENT
    /\ cfs_pc' = "drogue_descent"
    /\ UNCHANGED << apogee_flag, main_eject_flag, check_done_flag, apogee_val,
                    oldest_val, altitude_ring_buffer, flight_data,
                    check_state_queue, cascades >>

\* the end of the cascade without the write of apogee_flag
CFS_LatchApogee_Skipped ==
    /\ task["checkFlightState"] = "ready"
    /\ cfs_pc = "drogue_descent"
    /\ cfs_pc' = "receive"
    /\ UNCHANGED << current_state, apogee_flag, main_eject_flag,
                    check_done_flag, apogee_val, oldest_val,
                    altitude_ring_buffer, flight_data, check_state_queue,
                    cascades >>

\* main.cpp:1164
CFS_LatchApogee ==
    /\ task["checkFlightState"] = "ready"
    /\ cfs_pc = "drogue_descent"
    /\ apogee_flag' = 1
    /\ cfs_pc' = "receive"
    /\ UNCHANGED << current_state, main_eject_flag, check_done_flag,
                    apogee_val, oldest_val, altitude_ring_buffer, flight_data,
                    check_state_queue, cascades >>

\* main.cpp:1176
CFS_LatchMain ==
    /\ task["checkFlightState"] = "ready"
    /\ cfs_pc = "main_deploy"
    /\ main_eject_flag' = 1
    /\ cfs_pc' = "ground"
    /\ UNCHANGED << current_state, apogee_flag, check_done_flag, apogee_val,
                    oldest_val, altitude_ring_buffer, flight_data,
                    check_state_queue, cascades >>

\* main.cpp:1184-1188 (part_001:630-633 does not write check_done_flag)
CFS_Ground ==
    /\ task["checkFlightState"] = "ready"
    /\ cfs_pc = "ground"
    /\ IF flight_data.altitude < LAUNCH_DETECTION_THRESHOLD
       THEN /\ current_state' = POST_FLIGHT_GROUND
            /\ check_done_flag' = IF firmware = "hil" THEN 1 ELSE check_done_flag
       ELSE UNCHANGED << current_state, check_done_flag >>
    /\ cfs_pc' = "receive"
    /\ UNCHANGED << apogee_flag, main_eject_flag, apogee_val, oldest_val,
                    altitude_ring_buffer, flight_data, check_state_queue,
                    cascades >>

checkFlightState ==
    /\ \/ CFS_Receive
       \/ CFS_Detect
       \/ CFS_DrogueDeploy
       \/ CFS_DrogueDescent
       \/ CFS_LatchApogee
       \/ CFS_LatchMain
       \/ CFS_Ground
    /\ UNCHANGED << mode_vars, loop_vars, task, call_vars, fan_vars >>

(* -------------------- flightStateCallback ----------------------------- *)
\* main.cpp:1469-1486: the body is commented out; the invocation is counted
drogueChuteDeploy == drogue_calls' = drogue_calls + 1

\* main.cpp:1495-1510
mainChuteDeploy == main_calls' = main_calls + 1

\* one pass of the switch on current_state
flightStateCallback ==
    /\ task["flightStateCallback"] = "ready"
    /\ drogue_calls < MaxCalls
    /\ main_calls < MaxCalls
    /\ IF current_state = DROGUE_DEPLOY
       THEN drogueChuteDeploy /\ UNCHANGED main_calls
       ELSE IF current_state = MAIN_DEPLOY
            THEN mainChuteDeploy /\ UNCHANGED drogue_calls
            ELSE UNCHANGED << drogue_calls, main_calls >>
    /\ UNCHANGED << mode_vars, loop_vars, task, check_state_queue, fsm_vars,
                    cascades, fan_vars >>

(* ------------------------------ setup --------------------------------- *)
\* what xQueueCreate can return: NULL when the heap has no room for the
\* queue, a handle otherwise
xQueueCreate == { "NULL", "created" }

\* the second test of main.cpp:496 setting the flags of the first
checkRunTestToggle_SameFlags(test_pin, daq_pin) ==
    IF test_pin # daq_pin
    THEN [test |-> 1, daq |-> 0]
    ELSE [test |-> 0, daq |-> 0]

\* main.cpp:486-514: the three tests of the two jumper pins, in order
checkRunTestToggle(test_pin, daq_pin) ==
    LET m1 == IF test_pin = 0 /\ daq_pin = 1
              THEN [test |-> 1, daq |-> 0]
              ELSE [test |-> TEST_MODE, daq |-> DAQ_MODE]
        m2 == IF test_pin = 1 /\ daq_pin = 0
              THEN [test |-> 0, daq |-> 1]
              ELSE m1
    IN  IF test_pin = 1 /\ daq_pin = 1
        THEN [test |-> 0, daq |-> 0]
        ELSE m2

\* main.cpp:1746-1885: every task is created and suspended; the sensor
\* tasks are never resumed (their vTaskResume calls are commented out)
TasksAfterHilSetup ==
    [ t \in Tasks |->
        CASE t \in { "readAccelerationTask", "readAltimeterTask", "readGPSTask" }
               -> "suspended"
          [] t \in { "checkFlightState", "flightStateCallback",
                     "MQTT_TransmitTelemetry", "kalmanFilterTask" }
               -> "ready"
          [] t = "debugToTerminalTask"
               -> IF DEBUG_TO_TERMINAL = 1 THEN "ready" ELSE "none"
          [] t = "logToMemory"
               -> IF LOG_TO_MEMORY = 1 THEN "ready" ELSE "none" ]

\* setup with checkRunTestToggle called again on every pass of loop()
setup_EveryCycle ==
    /\ firmware = "hil"
    /\ main_pc \in { "setup", "loop" }
    /\ LET m == checkRunTestToggle(SET_TEST_MODE_PIN, SET_DAQ_MODE_PIN) IN
       /\ TEST_MODE' = m.test
       /\ DAQ_MODE' = m.daq
       /\ task' = IF main_pc = "setup" /\ m.daq = 0 /\ m.test = 1
                  THEN TasksAfterHilSetup ELSE task
       /\ IF main_pc = "setup" /\ m.daq = 0 /\ m.test = 1
          THEN kalman_filter_queue_handle' \in xQueueCreate
          ELSE UNCHANGED kalman_filter_queue_handle
    /\ altitude_ring_buffer' = IF main_pc = "setup" THEN ring_buffer_init
                               ELSE altitude_ring_buffer
    /\ main_pc' = "loop"
    /\ UNCHANGED << firmware, DEBUG_TO_TERMINAL, LOG_TO_MEMORY,
                    SET_TEST_MODE_PIN, SET_DAQ_MODE_PIN, operation_mode, col2, daq_vars,
                    sub_check_state, current_test_state, replay,
                    check_state_queue, current_state, apogee_flag,
                    main_eject_flag, check_done_flag, apogee_val, oldest_val,
                    cfs_pc, flight_data, call_vars, cascades, fan_vars >>

\* main.cpp:1517-1894
setup ==
    /\ firmware = "hil"
    /\ main_pc = "setup"
    /\ LET m == checkRunTestToggle(SET_TEST_MODE_PIN, SET_DAQ_MODE_PIN) IN
       /\ TEST_MODE' = m.test
       /\ DAQ_MODE' = m.daq
       /\ task' = IF m.daq = 0 /\ m.test = 1 THEN TasksAfterHilSetup ELSE task
       /\ IF m.daq = 0 /\ m.test = 1
          THEN kalman_filter_queue_handle' \in xQueueCreate
          ELSE UNCHANGED kalman_filter_queue_handle
    /\ altitude_ring_buffer' = ring_buffer_init
    /\ main_pc' = "loop"
    /\ UNCHANGED << firmware, DEBUG_TO_TERMINAL, LOG_TO_MEMORY,
                    SET_TEST_MODE_PIN, SET_DAQ_MODE_PIN, operation_mode, col2, daq_vars,
                    sub_check_state, current_test_state, replay,
                    check_state_queue, current_state, apogee_flag,
                    main_eject_flag, check_done_flag, apogee_val, oldest_val,
                    cfs_pc, flight_data, call_vars, cascades, fan_vars >>

(* ------------------------------- loop --------------------------------- *)
\* main.cpp:1906-1915: a character arrives while the subsystems are checked
LoopSubsystemCheck ==
    /\ firmware = "hil"
    /\ main_pc = "loop"
    /\ sub_check_state = SUB_SYSTEM_CHECK
    /\ \E ch \in { "2", "7", "x" } :
          sub_check_state' = IF ch = "2" THEN SUBSYSTEM_DONE_CHECK
                             ELSE SUB_SYSTEM_CHECK
    /\ UNCHANGED << mode_vars, main_pc, current_test_state, replay, task,
                    check_state_queue, fsm_vars, call_vars, cascades, fan_vars >>

\* main.cpp:1917-1923: the branch of loop() that replays test data
InTestBranch ==
    /\ firmware = "hil"
    /\ main_pc = "loop"
    /\ sub_check_state # SUB_SYSTEM_CHECK
    /\ DAQ_MODE = 0
    /\ TEST_MODE = 1

\* main.cpp:1927-1938: resume the evaluator, open the file, enter the for loop
LoopReplayStart ==
    /\ InTestBranch
    /\ current_test_state = DATA_CONSUME
    /\ ~replay.active
    /\ task' = [task EXCEPT !["checkFlightState"] = "ready"]
    /\ \E file_ok \in BOOLEAN :
          replay' = IF file_ok THEN [active |-> TRUE, row |-> 0] ELSE replay
    /\ UNCHANGED << mode_vars, main_pc, sub_check_state, current_test_state,
                    check_state_queue, fsm_vars, call_vars, cascades, fan_vars >>

\* main.cpp:1939-1944: one recorded row, sent with portMAX_DELAY
LoopReplaySend ==
    /\ InTestBranch
    /\ replay.active
    /\ replay.row < MaxRows
    /\ Len(check_state_queue) < TELEMETRY_DATA_QUEUE_LENGTH
    /\ \E alt \in Alts :
          check_state_queue' =
              Append(check_state_queue, Packet("file", alt, NoKf))
    /\ replay' = [replay EXCEPT !.row = @ + 1]
    /\ UNCHANGED << mode_vars, main_pc, sub_check_state, current_test_state,
                    task, fsm_vars, call_vars, cascades, fan_vars >>

\* main.cpp:1939-1947: the last pass of "row <= cp.getRowsCount()" reads the
\* element after the last row (any value), then the loop ends
LoopReplayPastEnd ==
    /\ InTestBranch
    /\ replay.active
    /\ Len(check_state_queue) < TELEMETRY_DATA_QUEUE_LENGTH
    /\ \E alt \in Alts :
          check_state_queue' =
              Append(check_state_queue, Packet("past_end", alt, NoKf))
    /\ replay' = [replay EXCEPT !.active = FALSE]
    /\ current_test_state' = DONE_TESTING
    /\ UNCHANGED << mode_vars, main_pc, sub_check_state, task, fsm_vars,
                    call_vars, cascades, fan_vars >>

\* main.cpp:1957-1960
LoopDoneTesting ==
    /\ InTestBranch
    /\ current_test_state = DONE_TESTING
    /\ task' = [task EXCEPT !["checkFlightState"] = "suspended"]
    /\ UNCHANGED << mode_vars, loop_vars, check_state_queue, fsm_vars,
                    call_vars, cascades, fan_vars >>

loop ==
    \/ LoopSubsystemCheck
    \/ LoopReplayStart
    \/ LoopReplaySend
    \/ LoopReplayPastEnd
    \/ LoopDoneTesting

(* ------------------------- specification ------------------------------ *)
\* the estimator as it is at power-up
InitEstimator ==
    /\ estimated_altitude = Rat(0, 1)
    /\ error_covariance_bmp = Rat(InitialErrorCovariance, 1)

InitCommon ==
    /\ operation_mode = SAFE_MODE
    /\ DAQ_MODE = 0
    /\ TEST_MODE = 0
    /\ main_pc = "setup"
    /\ task = [t \in Tasks |-> "none"]
    /\ sub_check_state = SUB_SYSTEM_CHECK
    /\ current_test_state = DATA_CONSUME
    /\ replay = [active |-> FALSE, row |-> 0]
    /\ check_state_queue = << >>
    /\ current_state = PRE_FLIGHT_GROUND
    /\ apogee_flag = 0
    /\ main_eject_flag = 0
    /\ check_done_flag = 0
    /\ apogee_val = 0
    /\ oldest_val = 0
    /\ altitude_ring_buffer = ring_buffer_init
    /\ cfs_pc = "receive"
    /\ flight_data = NoPacket
    /\ drogue_calls = 0
    /\ main_calls = 0
    /\ cascades = 0
    /\ telemetry_data_queue = << >>
    /\ log_to_mem_queue = << >>
    /\ debug_to_term_queue = << >>
    /\ gps_pc = 0
    /\ status = 0
    /\ a = 0
    /\ samples = [t \in Producers |-> 0]
    /\ received = {}
    /\ failed_sends = [name \in QueueNames |-> 0]
    /\ kalman_filter_queue_handle = "NULL"
    /\ current_DAQ_state = HANDSHAKE
    /\ SOH_recvd_flag = 0
    /\ value = 0
    /\ last_NAK_time = 0
    /\ test_data_buffer = << >>
    /\ test_data_serial_index = 0
    /\ test_data_file = << >>
    /\ millis = 0
    /\ nak_sent = 0
    /\ serial_rx = << >>

\* the revision with the test system, any setting of the two jumpers
Init ==
    /\ firmware = "hil"
    /\ DEBUG_TO_TERMINAL = 0
    /\ LOG_TO_MEMORY = 0
    /\ SET_TEST_MODE_PIN \in {0, 1}
    /\ SET_DAQ_MODE_PIN \in {0, 1}
    /\ acc_data_lcl = 0
    /\ gps_data_lcl = 0
    /\ col2 = << >>
    /\ tx_pending = << >>
    /\ InitEstimator
    /\ InitCommon

Next ==
    \/ setup
    \/ loop
    \/ checkFlightState
    \/ flightStateCallback

Spec == Init /\ [][Next]_vars

\* both tasks have priority 2 (main.cpp:1780, 1792) and share the processor
\* in time slices: neither is kept from running for ever
FairSpec ==
    /\ Spec
    /\ WF_vars(checkFlightState)
    /\ WF_vars(flightStateCallback)

(* ------------------ replay of a given recorded file ------------------- *)
\* the altitude columns replayed: a ground record whose reading sinks from
\* 4 to -1, a short flight, and a flight to 1000 and back to the ground
RecordedFlights ==
    { << 0, 4, -1, 0 >>,
      << 0, 10, 30, 50, 40, 10, 0 >>,
      << 0, 0, 2, 10, 50, 200, 500, 800, 1000, 995, 980, 950, 900, 850, 800,
         10, 3 >> }

\* main.cpp:1939-1944: the pass of the for loop that sends row "row" of the
\* file (rows are counted from 0 in the code, from 1 in col2 here)
LoopReplayRow ==
    /\ InTestBranch
    /\ replay.active
    /\ replay.row < Len(col2)
    /\ Len(check_state_queue) < TELEMETRY_DATA_QUEUE_LENGTH
    /\ check_state_queue' =
           Append(check_state_queue, Packet("file", col2[replay.row + 1], NoKf))
    /\ replay' = [replay EXCEPT !.row = @ + 1]
    /\ UNCHANGED << mode_vars, main_pc, sub_check_state, current_test_state,
                    task, fsm_vars, call_vars, cascades, fan_vars >>

\* main.cpp:1939-1947: the pass with row = cp.getRowsCount() reads the
\* element after the last row (any value), then the loop ends
LoopReplayLastPass ==
    /\ InTestBranch
    /\ replay.active
    /\ replay.row = Len(col2)
    /\ Len(check_state_queue) < TELEMETRY_DATA_QUEUE_LENGTH
    /\ \E alt \in Garbage :
          check_state_queue' =
              Append(check_state_queue, Packet("past_end", alt, NoKf))
    /\ replay' = [active |-> FALSE, row |-> replay.row + 1]
    /\ current_test_state' = DONE_TESTING
    /\ UNCHANGED << mode_vars, main_pc, sub_check_state, task, fsm_vars,
                    call_vars, cascades, fan_vars >>

\* the test jumper fitted and one of the recorded files on the card
InitReplay ==
    /\ firmware = "hil"
    /\ DEBUG_TO_TERMINAL = 0
    /\ LOG_TO_MEMORY = 0
    /\ SET_TEST_MODE_PIN = 0
    /\ SET_DAQ_MODE_PIN = 1
    /\ acc_data_lcl = 0
    /\ gps_data_lcl = 0
    /\ col2 \in RecordedFlights
    /\ tx_pending = << >>
    /\ InitEstimator
    /\ InitCommon

NextReplay ==
    \/ setup
    \/ LoopSubsystemCheck
    \/ LoopReplayStart
    \/ LoopReplayRow
    \/ LoopReplayLastPass
    \/ LoopDoneTesting
    \/ checkFlightState
    \/ flightStateCallback

SpecReplay == InitReplay /\ [][NextReplay]_vars

\* the samples checkFlightState has received so far: every pass of the for
\* loop sends one, and the queue holds those not yet received
Evaluated == replay.row - Len(check_state_queue)

(* ------------- replay with the jumpers moved while running ------------ *)
\* main.cpp:410-411: the two pins are inputs; a jumper is fitted or removed
\* after setup() has returned
JumperMoved ==
    /\ main_pc = "loop"
    /\ \E test_pin, daq_pin \in {0, 1} :
          /\ << test_pin, daq_pin >> # << SET_TEST_MODE_PIN, SET_DAQ_MODE_PIN >>
          /\ SET_TEST_MODE_PIN' = test_pin
          /\ SET_DAQ_MODE_PIN' = daq_pin
    /\ UNCHANGED << firmware, DEBUG_TO_TERMINAL, LOG_TO_MEMORY, DAQ_MODE,
                    TEST_MODE, operation_mode, col2, daq_vars,
                    kalman_filter_queue_handle, loop_vars, task,
                    check_state_queue, fsm_vars, call_vars, cascades,
                    fan_vars >>

\* any setting of the two jumpers at power-up, one of the recorded files
InitJumper ==
    /\ firmware = "hil"
    /\ DEBUG_TO_TERMINAL = 0
    /\ LOG_TO_MEMORY = 0
    /\ SET_TEST_MODE_PIN \in {0, 1}
    /\ SET_DAQ_MODE_PIN \in {0, 1}
    /\ acc_data_lcl = 0
    /\ gps_data_lcl = 0
    /\ col2 \in RecordedFlights
    /\ tx_pending = << >>
    /\ InitEstimator
    /\ InitCommon

NextJumper ==
    \/ setup
    \/ JumperMoved
    \/ LoopSubsystemCheck
    \/ LoopReplayStart
    \/ LoopReplayRow
    \/ LoopReplayLastPass
    \/ LoopDoneTesting
    \/ checkFlightState
    \/ flightStateCallback

SpecJumper == InitJumper /\ [][NextJumper]_vars

\* the gain computed from the covariance as it was, without the prediction
kalmanFilter_NoProcessVariance(z) ==
    LET kalman_gain_bmp ==
            RatDiv(error_covariance_bmp,
                   RatAdd(error_covariance_bmp, Rat(measurement_variance_bmp, 1)))
    IN  [ estimated_altitude |->
              RatAdd(estimated_altitude,
                     RatMul(kalman_gain_bmp,
                            RatSub(Rat(z, 1), estimated_altitude))),
          error_covariance_bmp |->
              RatMul(RatSub(Rat(1, 1), kalman_gain_bmp), error_covariance_bmp) ]

\* the gain divided by the measurement variance alone
kalmanFilter_GainOverMeasurement(z) ==
    LET error_covariance_pred ==
            RatAdd(error_covariance_bmp, Rat(process_variance_bmp, 1))
        kalman_gain_bmp ==
            RatDiv(error_covariance_pred, Rat(measurement_variance_bmp, 1))
    IN  [ estimated_altitude |->
              RatAdd(estimated_altitude,
                     RatMul(kalman_gain_bmp,
                            RatSub(Rat(z, 1), estimated_altitude))),
          error_covariance_bmp |->
              RatMul(RatSub(Rat(1, 1), kalman_gain_bmp), error_covariance_pred) ]

\* the covariance left at its predicted value
kalmanFilter_CovarianceOfPrediction(z) ==
    LET error_covariance_pred ==
            RatAdd(error_covariance_bmp, Rat(process_variance_bmp, 1))
        kalman_gain_bmp ==
            RatDiv(error_covariance_pred,
                   RatAdd(error_covariance_pred, Rat(measurement_variance_bmp, 1)))
    IN  [ estimated_altitude |->
              RatAdd(estimated_altitude,
                     RatMul(kalman_gain_bmp,
                            RatSub(Rat(z, 1), estimated_altitude))),
          error_covariance_bmp |-> error_covariance_pred ]

(* --------------------- the flight revision ---------------------------- *)
\* part_001:539-547: one update of the scalar filter with the reading z
kalmanFilter(z) ==
    LET estimated_altitude_pred == estimated_altitude
        error_covariance_pred ==
            RatAdd(error_covariance_bmp, Rat(process_variance_bmp, 1))
        kalman_gain_bmp ==
            RatDiv(error_covariance_pred,
                   RatAdd(error_covariance_pred, Rat(measurement_variance_bmp, 1)))
    IN  [ estimated_altitude |->
              RatAdd(estimated_altitude_pred,
                     RatMul(kalman_gain_bmp,
                            RatSub(Rat(z, 1), estimated_altitude_pred))),
          error_covariance_bmp |->
              RatMul(RatSub(Rat(1, 1), kalman_gain_bmp), error_covariance_pred) ]

\* xQueueSend with a timeout of 0: the packet is dropped when the queue is full
\* 1 when a send with timeout 0 finds no room and returns without queueing
errQUEUE_FULL(q) == Bool2Int(Len(q) >= TELEMETRY_DATA_QUEUE_LENGTH)

xQueueSendNoWait(q, pkt) ==
    IF Len(q) < TELEMETRY_DATA_QUEUE_LENGTH THEN Append(q, pkt) ELSE q

\* the four sends of a sensor task that does not wait
FanOut(pkt) ==
    /\ telemetry_data_queue' = xQueueSendNoWait(telemetry_data_queue, pkt)
    /\ log_to_mem_queue' = xQueueSendNoWait(log_to_mem_queue, pkt)
    /\ check_state_queue' = xQueueSendNoWait(check_state_queue, pkt)
    /\ debug_to_term_queue' = xQueueSendNoWait(debug_to_term_queue, pkt)
    /\ failed_sends' = [name \in QueueNames |->
                            failed_sends[name] + errQUEUE_FULL(QueueOf(name))]

\* part_001:1132-1239: every task is created and left running
TasksAfterFlightSetup ==
    [ t \in Tasks |->
        CASE t = "debugToTerminalTask"
               -> IF DEBUG_TO_TERMINAL = 1 THEN "ready" ELSE "none"
          [] t = "logToMemory"
               -> IF LOG_TO_MEMORY = 1 THEN "ready" ELSE "none"
          [] OTHER -> "ready" ]

\* part_001:962-1253
setup_flight ==
    /\ firmware = "flight"
    /\ main_pc = "setup"
    /\ altitude_ring_buffer' = ring_buffer_init
    /\ task' = TasksAfterFlightSetup
    /\ kalman_filter_queue_handle' = "created"
    /\ main_pc' = "loop"
    /\ UNCHANGED << firmware, DEBUG_TO_TERMINAL, LOG_TO_MEMORY,
                    SET_TEST_MODE_PIN, SET_DAQ_MODE_PIN, DAQ_MODE, TEST_MODE,
                    operation_mode, col2, daq_vars,
                    sub_check_state, current_test_state, replay,
                    check_state_queue, current_state, apogee_flag,
                    main_eject_flag, check_done_flag, apogee_val, oldest_val,
                    cfs_pc, flight_data, call_vars, cascades, fan_vars >>

\* part_001:334-356: one pass of the loop; the altitude field is never set
readAccelerationTask ==
    /\ task["readAccelerationTask"] = "ready"
    /\ samples["readAccelerationTask"] < MaxSamples
    /\ FanOut(Packet("acc", acc_data_lcl, NoKf))
    /\ samples' = [samples EXCEPT !["readAccelerationTask"] = @ + 1]
    /\ UNCHANGED << mode_vars, loop_vars, task, fsm_vars, call_vars, cascades,
                    acc_data_lcl, gps_data_lcl, gps_pc, kalman_vars, received >>

\* the barometer read with the filter fed whether or not a step failed
AltimeterRead_FilterAlways(st, z) ==
    /\ status' = st
    /\ a' = IF st # 0 THEN z ELSE a
    /\ estimated_altitude' = kalmanFilter(a').estimated_altitude
    /\ error_covariance_bmp' = kalmanFilter(a').error_covariance_bmp

\* part_001:378-443: the steps of the barometer read; st is the status of
\* the first step that fails (0), or of the last step when none does, and z
\* the altitude computed from the pressure.  Only a complete read reaches
\* the assignment to a and the call of kalmanFilter
AltimeterRead(st, z) ==
    /\ status' = st
    /\ IF st # 0
       THEN /\ a' = z
            /\ estimated_altitude' = kalmanFilter(z).estimated_altitude
            /\ error_covariance_bmp' = kalmanFilter(z).error_covariance_bmp
       ELSE UNCHANGED << a, estimated_altitude, error_covariance_bmp >>

\* part_001:366-470: one pass of the loop.  The filter runs only when the
\* sensor answered; the altitude field is set to the reading and then to 0
readAltimeterTask ==
    /\ task["readAltimeterTask"] = "ready"
    /\ samples["readAltimeterTask"] < MaxSamples
    /\ \E st \in {0, 1}, z \in RawAlts :
          LET kf == kalmanFilter(z)
              altitude_1 == z
              altitude_2 == 0
          IN  /\ AltimeterRead(st, z)
              /\ FanOut(Packet("alt", altitude_2,
                               IF st # 0 THEN kf.estimated_altitude
                               ELSE NoKf))
    /\ samples' = [samples EXCEPT !["readAltimeterTask"] = @ + 1]
    /\ UNCHANGED << mode_vars, loop_vars, task, fsm_vars, call_vars, cascades,
                    acc_data_lcl, gps_data_lcl, gps_pc, received >>

\* part_001:481-531: the four sends wait for room (portMAX_DELAY), one by one
readGPSTask ==
    /\ task["readGPSTask"] = "ready"
    /\ samples["readGPSTask"] < MaxSamples
    /\ LET pkt == Packet("gps", gps_data_lcl, NoKf)
           room(q) == Len(q) < TELEMETRY_DATA_QUEUE_LENGTH
       IN  CASE gps_pc = 0 ->
                  /\ room(telemetry_data_queue)
                  /\ telemetry_data_queue' = Append(telemetry_data_queue, pkt)
                  /\ UNCHANGED << log_to_mem_queue, check_state_queue,
                                  debug_to_term_queue, samples >>
             [] gps_pc = 1 ->
                  /\ room(log_to_mem_queue)
                  /\ log_to_mem_queue' = Append(log_to_mem_queue, pkt)
                  /\ UNCHANGED << telemetry_data_queue, check_state_queue,
                                  debug_to_term_queue, samples >>
             [] gps_pc = 2 ->
                  /\ room(check_state_queue)
                  /\ check_state_queue' = Append(check_state_queue, pkt)
                  /\ UNCHANGED << telemetry_data_queue, log_to_mem_queue,
                                  debug_to_term_queue, samples >>
             [] gps_pc = 3 ->
                  /\ room(debug_to_term_queue)
                  /\ debug_to_term_queue' = Append(debug_to_term_queue, pkt)
                  /\ samples' = [samples EXCEPT !["readGPSTask"] = @ + 1]
                  /\ UNCHANGED << telemetry_data_queue, log_to_mem_queue,
                                  check_state_queue >>
    /\ gps_pc' = (gps_pc + 1) % 4
    /\ UNCHANGED << mode_vars, loop_vars, task, fsm_vars, call_vars, cascades,
                    acc_data_lcl, gps_data_lcl, kalman_vars, received,
                    failed_sends >>

\* the queue handle each receiving task passes to xQueueReceive
\* (part_001:571, 721, 783, 813)
ReceiveQueue(t) ==
    CASE t = "checkFlightState" -> "check_state_queue"
      [] t = "MQTT_TransmitTelemetry" -> "telemetry_data_queue"
      [] t = "debugToTerminalTask" -> "log_to_mem_queue"
      [] t = "logToMemory" -> "log_to_mem_queue"

Consumers == { "checkFlightState", "MQTT_TransmitTelemetry",
               "debugToTerminalTask", "logToMemory" }

\* part_001:806-813
MQTT_TransmitTelemetry ==
    /\ task["MQTT_TransmitTelemetry"] = "ready"
    /\ telemetry_data_queue # << >>
    /\ telemetry_data_queue' = Tail(telemetry_data_queue)
    /\ received' = received \cup
           { << "MQTT_TransmitTelemetry", ReceiveQueue("MQTT_TransmitTelemetry") >> }
    /\ UNCHANGED << mode_vars, loop_vars, task, check_state_queue, fsm_vars,
                    call_vars, cascades, log_to_mem_queue, debug_to_term_queue,
                    acc_data_lcl, gps_data_lcl, gps_pc, kalman_vars, samples,
                    failed_sends >>

\* part_001:716-721: the receive names log_to_mem_queue_handle
debugToTerminalTask ==
    /\ task["debugToTerminalTask"] = "ready"
    /\ log_to_mem_queue # << >>
    /\ log_to_mem_queue' = Tail(log_to_mem_queue)
    /\ received' = received \cup
           { << "debugToTerminalTask", ReceiveQueue("debugToTerminalTask") >> }
    /\ UNCHANGED << mode_vars, loop_vars, task, check_state_queue, fsm_vars,
                    call_vars, cascades, telemetry_data_queue,
                    debug_to_term_queue, acc_data_lcl, gps_data_lcl, gps_pc,
                    kalman_vars, samples, failed_sends >>

\* part_001:779-783
logToMemory ==
    /\ task["logToMemory"] = "ready"
    /\ log_to_mem_queue # << >>
    /\ log_to_mem_queue' = Tail(log_to_mem_queue)
    /\ received' = received \cup { << "logToMemory", ReceiveQueue("logToMemory") >> }
    /\ UNCHANGED << mode_vars, loop_vars, task, check_state_queue, fsm_vars,
                    call_vars, cascades, telemetry_data_queue,
                    debug_to_term_queue, acc_data_lcl, gps_data_lcl, gps_pc,
                    kalman_vars, samples, failed_sends >>

\* the revision without the test system, any setting of the two build
\* switches, any content of the two packets that are never initialised
InitFlight ==
    /\ firmware = "flight"
    /\ DEBUG_TO_TERMINAL \in {0, 1}
    /\ LOG_TO_MEMORY \in {0, 1}
    /\ SET_TEST_MODE_PIN = 1
    /\ SET_DAQ_MODE_PIN = 1
    /\ acc_data_lcl \in Garbage
    /\ gps_data_lcl \in Garbage
    /\ col2 = << >>
    /\ tx_pending = << >>
    /\ InitEstimator
    /\ InitCommon

NextFlight ==
    \/ setup_flight
    \/ readAccelerationTask
    \/ readAltimeterTask
    \/ readGPSTask
    \/ checkFlightState
    \/ flightStateCallback
    \/ MQTT_TransmitTelemetry
    \/ debugToTerminalTask
    \/ logToMemory

SpecFlight == InitFlight /\ [][NextFlight]_vars

(* ------------------------ the estimator alone ------------------------- *)
MaxUpdates == 3

\* estimates and covariances the filter starts an update from
PriorEstimates == { Rat(0, 1), Rat(40, 1), Rat(-5, 2) }

PriorCovariances == { Rat(1, 2), Rat(1, 1), Rat(3, 1) }

\* part_001:366-443: one pass of readAltimeterTask as far as the estimator
\* sees it (the sends of the pass are left out)
AltimeterPass ==
    /\ firmware = "flight"
    /\ samples["readAltimeterTask"] < MaxUpdates
    /\ \E st \in {0, 1}, z \in RawAlts : AltimeterRead(st, z)
    /\ samples' = [samples EXCEPT !["readAltimeterTask"] = @ + 1]
    /\ UNCHANGED << mode_vars, loop_vars, task, check_state_queue, fsm_vars,
                    call_vars, cascades, telemetry_data_queue,
                    log_to_mem_queue, debug_to_term_queue, acc_data_lcl,
                    gps_data_lcl, gps_pc, received, failed_sends >>

InitKalman ==
    /\ firmware = "flight"
    /\ DEBUG_TO_TERMINAL = 0
    /\ LOG_TO_MEMORY = 0
    /\ SET_TEST_MODE_PIN = 1
    /\ SET_DAQ_MODE_PIN = 1
    /\ acc_data_lcl = 0
    /\ gps_data_lcl = 0
    /\ col2 = << >>
    /\ tx_pending = << >>
    /\ estimated_altitude \in PriorEstimates
    /\ error_covariance_bmp \in PriorCovariances
    /\ InitCommon

NextKalman == AltimeterPass

SpecKalman == InitKalman /\ [][NextKalman]_vars

(* ----------------------- actuation properties ------------------------- *)
\* C1: drogueChuteDeploy is invoked at most once per flight, whatever the
\* samples and however checkFlightState and flightStateCallback interleave.
C1_DrogueAtMostOnce == drogue_calls <= 1

\* C2: mainChuteDeploy is never invoked a second time, also when no further
\* sample arrives while current_state is MAIN_DEPLOY.
C2_MainAtMostOnce == main_calls <= 1

C8_NoActuationInSafeMode ==
    [][ (drogue_calls' # drogue_calls \/ main_calls' # main_calls)
            => operation_mode = ARMED_MODE ]_vars

(* ---------------------- state machine properties ---------------------- *)
\* C4: no step writes a flight state earlier in the order of the states
\* than the current one.
C4_StateNonDecreasing == [][ current_state' >= current_state ]_vars

\* C6: apogee is not declared while the altitude ring buffer is not full.
C6_NoApogeeBeforeFull ==
    (current_state = APOGEE \/ apogee_flag = 1)
        => ring_buffer_full(altitude_ring_buffer) = 1

\* C7: apogee_flag and main_eject_flag start at 0 and only ever go from 0 to
\* 1; the apogee cascade runs at most once and APOGEE is written only while
\* apogee_flag is 0.
C7_LatchesOneWay ==
    /\ apogee_flag = 0
    /\ main_eject_flag = 0
    /\ [][ /\ apogee_flag' \in {0, 1}
           /\ main_eject_flag' \in {0, 1}
           /\ apogee_flag' >= apogee_flag
           /\ main_eject_flag' >= main_eject_flag
           /\ cascades' <= 1
           /\ (current_state' = APOGEE /\ current_state # APOGEE)
                 => (apogee_flag = 0 /\ cascades = 0) ]_vars

\* a flight that went through the cascade and the main deployment and then
\* evaluated more samples on the ground
C7_BothLatched ==
    /\ apogee_flag = 1
    /\ main_eject_flag = 1
    /\ cascades = 1
    /\ current_state = POST_FLIGHT_GROUND
    /\ cfs_pc = "detect" \/ cfs_pc = "ground"

\* C5: once current_state is POST_FLIGHT_GROUND no later sample changes it.
C5_PostFlightTerminal ==
    [][ current_state = POST_FLIGHT_GROUND
            => current_state' = POST_FLIGHT_GROUND ]_vars

(* ------------------------ pipeline properties ------------------------- *)
\* C9: every altitude checkFlightState evaluates is the value kalmanFilter
\* returned for that sample.
C9_EvaluatedAltitudeIsFiltered ==
    flight_data.src # "none"
        => RatEqInt(flight_data.altitude, flight_data.kf)

\* C10: no queue is received from by two tasks, and every queue that holds
\* a packet has a task that receives from it.
C10_OneReceiverPerQueue ==
    /\ \A p, q \in received : p[2] = q[2] => p[1] = q[1]
    /\ \A name \in QueueNames :
          QueueOf(name) # << >>
              => \E t \in Consumers : task[t] # "none" /\ ReceiveQueue(t) = name

\* part_001:526-529: the queue readGPSTask is sending to at its position
GPSSendQueue ==
    CASE gps_pc = 0 -> "telemetry_data_queue"
      [] gps_pc = 1 -> "log_to_mem_queue"
      [] gps_pc = 2 -> "check_state_queue"
      [] gps_pc = 3 -> "debug_to_term_queue"

\* readGPSTask stands inside xQueueSend(..., portMAX_DELAY) on a full queue
GPSBlocked ==
    /\ task["readGPSTask"] = "ready"
    /\ samples["readGPSTask"] < MaxSamples
    /\ Len(QueueOf(GPSSendQueue)) = TELEMETRY_DATA_QUEUE_LENGTH

\* C11: no producer task ever waits on a full queue; in particular a queue
\* that nobody receives from never holds a producer inside a send.
C11_NoProducerBlocks ==
    ~ ( /\ GPSBlocked
        /\ \A t \in Consumers :
              task[t] # "none" => ReceiveQueue(t) # GPSSendQueue )

\* part_001:351-354, 464-467: the value xQueueSend returns is discarded and
\* the firmware keeps no counter of failed sends, so the count it can
\* report for a queue is the count it starts with
reported_losses(name) == 0

\* C12: the loss count reported for a queue equals the number of sends to it
\* that found it full.
C12_LossCounted ==
    \A name \in QueueNames : reported_losses(name) = failed_sends[name]

\* C13: before apogee is latched, a sample sets current_state to
\* POWERED_FLIGHT only if its altitude lies strictly between the launch
\* threshold and the top of the launch window.
C13_PoweredFlightOnlyInWindow ==
    [][ ( /\ apogee_flag # 1
          /\ cfs_pc = "receive"
          /\ cfs_pc' = "detect"
          /\ current_state' = POWERED_FLIGHT )
        => ( /\ LAUNCH_DETECTION_THRESHOLD < flight_data'.altitude
             /\ flight_data'.altitude
                  < LAUNCH_DETECTION_THRESHOLD
                      + LAUNCH_DETECTION_ALTITUDE_WINDOW ) ]_vars

\* C15: after apogee is latched, a sample sets current_state to MAIN_DEPLOY
\* (and then main_eject_flag) only if its altitude lies between the launch
\* threshold and apogee_val, both ends included.
C15_MainDeployOnlyInRange ==
    [][ ( /\ cfs_pc = "receive"
          /\ cfs_pc' = "main_deploy" )
        => ( /\ apogee_flag = 1
             /\ current_state' = MAIN_DEPLOY
             /\ LAUNCH_DETECTION_THRESHOLD <= flight_data'.altitude
             /\ flight_data'.altitude <= apogee_val ) ]_vars

\* C17: when apogee is declared on current altitude c with oldest buffered
\* value o, apogee_val is o - (o - c)/2, up to the fraction an integer drops.
C17_ApogeeValMidpoint ==
    cfs_pc = "apogee"
        => Abs(2 * apogee_val
                 - (2 * oldest_val - (oldest_val - flight_data.altitude))) <= 1

\* C16: main deployment never precedes apogee: main_eject_flag = 1 only
\* with apogee_flag = 1, and current_state is MAIN_DEPLOY or MAIN_DESCENT
\* only after the apogee cascade has been executed and latched.
C16_MainAfterApogee ==
    /\ main_eject_flag = 1 => apogee_flag = 1
    /\ current_state \in { MAIN_DEPLOY, MAIN_DESCENT }
          => apogee_flag = 1 /\ cascades >= 1

\* C16: main has been deployed and the descent under it entered
C16_MainDescentReached ==
    main_eject_flag = 1 /\ apogee_flag = 1 /\ current_state = MAIN_DESCENT

\* C20: checkRunTestToggle leaves at most one of DAQ_MODE and TEST_MODE set
\* for every level of the two pins: TEST pin low with DAQ pin high gives
\* test mode, TEST pin high with DAQ pin low gives DAQ mode, both pins high
\* gives flight with both flags 0, and both pins low leaves both flags 0.
C20_OneModeResolved ==
    /\ ~ (DAQ_MODE = 1 /\ TEST_MODE = 1)
    /\ main_pc = "loop" =>
          /\ (SET_TEST_MODE_PIN = 0 /\ SET_DAQ_MODE_PIN = 1)
                => (TEST_MODE = 1 /\ DAQ_MODE = 0)
          /\ (SET_TEST_MODE_PIN = 1 /\ SET_DAQ_MODE_PIN = 0)
                => (TEST_MODE = 0 /\ DAQ_MODE = 1)
          /\ (SET_TEST_MODE_PIN = 1 /\ SET_DAQ_MODE_PIN = 1)
                => (TEST_MODE = 0 /\ DAQ_MODE = 0)
          /\ (SET_TEST_MODE_PIN = 0 /\ SET_DAQ_MODE_PIN = 0)
                => (TEST_MODE = 0 /\ DAQ_MODE = 0)

\* C20: setup() has run checkRunTestToggle with the DAQ jumper fitted
C20_DaqResolved ==
    main_pc = "loop" /\ SET_TEST_MODE_PIN = 1 /\ SET_DAQ_MODE_PIN = 0
        /\ DAQ_MODE = 1

\* C14: as long as every sample evaluated so far has an altitude below the
\* launch threshold, current_state is PRE_FLIGHT_GROUND.
C14_GroundStaysPreFlight ==
    ( /\ Evaluated <= Len(col2)
      /\ \A i \in 1..Evaluated : col2[i] < LAUNCH_DETECTION_THRESHOLD )
        => current_state = PRE_FLIGHT_GROUND

\* C18: with buffer depth N and threshold T, apogee is declared at exactly
\* the first evaluated sample s_k with s_(k-N) - s_k >= T, at no earlier
\* sample, and not a second time.
C18_ApogeeAtNthBack ==
    LET DropAt(k) == /\ k > SIZE_OF_BUFFER
                     /\ col2[k - SIZE_OF_BUFFER] - col2[k]
                           >= APOGEE_DETECTION_THRESHOLD
        FirstDrop == IF \E k \in 1..Len(col2) : DropAt(k)
                     THEN CHOOSE k \in 1..Len(col2) :
                             DropAt(k) /\ \A j \in 1..(k - 1) : ~DropAt(j)
                     ELSE 0
    IN  /\ (cfs_pc = "apogee" /\ Evaluated <= Len(col2))
              => Evaluated = FirstDrop
        /\ cascades <= 1

\* C19: for the recorded flight 0, 0, 2, 10, 50, 200, 500, 800, 1000, 995,
\* 980, 950, 900, 850, 800, 10, 3 (launch threshold 5, apogee threshold 5,
\* depth SIZE_OF_BUFFER): POWERED_FLIGHT is entered at the first sample above
\* 5, the cascade runs at the first sample whose SIZE_OF_BUFFER-samples-back
\* value exceeds it by at least 5, MAIN_DEPLOY is entered only on a sample
\* within [5, apogee_val], POST_FLIGHT_GROUND only on a sample below 5, and
\* by POST_FLIGHT_GROUND the drogue and the main have each been actuated
\* exactly once.
C19_EndToEnd ==
    LET flight == << 0, 0, 2, 10, 50, 200, 500, 800, 1000, 995, 980, 950,
                     900, 850, 800, 10, 3 >>
        sample == flight_data.altitude
    IN  (col2 = flight /\ Evaluated <= Len(col2)) =>
           /\ current_state = POWERED_FLIGHT => Evaluated >= 4
           /\ (Evaluated >= 4 /\ cfs_pc = "detect")
                 => current_state = POWERED_FLIGHT
           /\ cfs_pc = "apogee" => Evaluated = 9 + SIZE_OF_BUFFER
           /\ current_state = MAIN_DEPLOY
                 => (LAUNCH_DETECTION_THRESHOLD <= sample
                       /\ sample <= apogee_val)
           /\ current_state = POST_FLIGHT_GROUND
                 => ( /\ sample < LAUNCH_DETECTION_THRESHOLD
                      /\ drogue_calls = 1
                      /\ main_calls = 1 )
           /\ drogue_calls <= 1
           /\ main_calls <= 1

\* C21: the operating mode is resolved once: after setup() has returned,
\* DAQ_MODE and TEST_MODE are never written again, whatever the mode pins
\* do and however often loop() runs.
C21_ModeResolvedOnce ==
    [][ main_pc = "loop" => UNCHANGED << DAQ_MODE, TEST_MODE >> ]_vars

\* C21: the jumpers no longer show the mode that setup() resolved
C21_PinsMovedAfterSetup ==
    /\ main_pc = "loop"
    /\ TEST_MODE = 1
    /\ SET_TEST_MODE_PIN = 1
    /\ SET_DAQ_MODE_PIN = 0
    /\ replay.row > 0

\* C22: in flight mode (both pins high, neither jumper fitted) setup() has
\* created the sensor tasks and checkFlightState and they run.
C22_FlightModeTasksRun ==
    ( /\ main_pc = "loop"
      /\ SET_TEST_MODE_PIN = 1
      /\ SET_DAQ_MODE_PIN = 1 )
        => /\ \A t \in Producers : task[t] = "ready"
           /\ task["checkFlightState"] = "ready"

\* C23: in replay mode the samples sent to check_state_queue are the rows of
\* the recorded file, one per row: no more samples than rows are sent and
\* no sample comes from beyond the last row.
C23_ReplaySendsFileRows ==
    /\ replay.row <= Len(col2)
    /\ \A i \in 1..Len(check_state_queue) :
          /\ check_state_queue[i].src = "file"
          /\ check_state_queue[i].altitude
                = col2[replay.row - Len(check_state_queue) + i]

\* C24: a failed initialisation is fatal: when a queue could not be created
\* (its handle is NULL after setup), setup has started no task and no
\* flight-state transition occurs.
C24_FailedInitIsFatal ==
    ( /\ main_pc = "loop"
      /\ TEST_MODE = 1
      /\ kalman_filter_queue_handle = "NULL" )
        => /\ \A t \in Tasks : task[t] # "ready"
           /\ current_state = PRE_FLIGHT_GROUND

\* C25: a failed barometer read leaves the estimator untouched: the pass
\* does not call kalmanFilter, and estimated_altitude and
\* error_covariance_bmp keep their previous values.
C25_FailedReadKeepsEstimate ==
    [][ ( /\ samples'["readAltimeterTask"] # samples["readAltimeterTask"]
          /\ status' = 0 )
        => UNCHANGED << estimated_altitude, error_covariance_bmp, a >> ]_vars

\* C25: a read failed after an earlier read had moved the estimate
C25_FailedReadAfterUpdate ==
    /\ status = 0
    /\ a = 30
    /\ samples["readAltimeterTask"] >= 2

\* C26: kalmanFilter(z) computes predicted = error_covariance +
\* process_variance, gain = predicted / (predicted + measurement_variance),
\* estimate + gain * (z - estimate) as the new estimate, which it returns,
\* and (1 - gain) * predicted as the new error covariance.
C26_KalmanRecursion ==
    [][ ( /\ samples'["readAltimeterTask"] # samples["readAltimeterTask"]
          /\ status' # 0 )
        => LET predicted == RatAdd(error_covariance_bmp,
                                   Rat(process_variance_bmp, 1))
               gain == RatDiv(predicted,
                              RatAdd(predicted,
                                     Rat(measurement_variance_bmp, 1)))
           IN  /\ estimated_altitude'
                    = RatAdd(estimated_altitude,
                             RatMul(gain, RatSub(Rat(a', 1),
                                                 estimated_altitude)))
               /\ error_covariance_bmp'
                    = RatMul(RatSub(Rat(1, 1), gain), predicted) ]_vars

\* C26: two updates have been made, the second on a reading of 30
C26_TwoUpdates ==
    status # 0 /\ a = 30 /\ samples["readAltimeterTask"] = 2

\* C27: an update never overshoots its input: the new estimate lies between
\* the previous estimate and the input, so a constant input is approached
\* monotonically.
C27_NoOvershoot ==
    [][ ( /\ samples'["readAltimeterTask"] # samples["readAltimeterTask"]
          /\ status' # 0 )
        => \/ /\ RatLeq(estimated_altitude, estimated_altitude')
              /\ RatLeq(estimated_altitude', Rat(a', 1))
           \/ /\ RatLeq(Rat(a', 1), estimated_altitude')
              /\ RatLeq(estimated_altitude', estimated_altitude) ]_vars

\* C27: the estimate has come down from 40 towards a reading of 0 without
\* reaching it
C27_MovedTowardsInput ==
    /\ status # 0
    /\ a = 0
    /\ samples["readAltimeterTask"] = MaxUpdates
    /\ RatLess(Rat(0, 1), estimated_altitude)
    /\ RatLess(estimated_altitude, Rat(40, 1))

\* C28: every update strictly decreases error_covariance_bmp (so that it
\* tends to zero), whatever covariance the update starts from.
C28_CovarianceDecreases ==
    [][ ( /\ samples'["readAltimeterTask"] # samples["readAltimeterTask"]
          /\ status' # 0 )
        => RatLess(error_covariance_bmp', error_covariance_bmp) ]_vars

\* C28 (amended): the recursion has the fixed point P* > 0 with
\* P*^2 + P* * process_variance = process_variance * measurement_variance.
\* An update that starts above P* strictly decreases error_covariance_bmp
\* and leaves it above P*; an update that starts at or below P* does not
\* decrease it; the covariance stays positive.
C28_CovarianceTowardsFixedPoint ==
    [][ LET AboveFixedPoint(p) ==
                p[1] * p[1] + p[1] * p[2] * process_variance_bmp
                  > process_variance_bmp * measurement_variance_bmp
                      * p[2] * p[2]
        IN  ( /\ samples'["readAltimeterTask"] # samples["readAltimeterTask"]
              /\ status' # 0 )
            => /\ RatLess(Rat(0, 1), error_covariance_bmp')
               /\ AboveFixedPoint(error_covariance_bmp)
                    => /\ RatLess(error_covariance_bmp', error_covariance_bmp)
                       /\ AboveFixedPoint(error_covariance_bmp')
               /\ ~AboveFixedPoint(error_covariance_bmp)
                    => RatLeq(error_covariance_bmp, error_covariance_bmp')
      ]_vars

\* C28: three updates from the covariance 1 have brought it down to 13/21
C28_CovarianceCameDown ==
    /\ status # 0
    /\ samples["readAltimeterTask"] = MaxUpdates
    /\ error_covariance_bmp = Rat(13, 21)

C30_StalledStreamParks ==
    [][ LET machine == << current_state, apogee_flag, main_eject_flag,
                          apogee_val >>
        IN  /\ machine' # machine
               => /\ task["checkFlightState"] = "ready"
                  /\ cfs_pc' # cfs_pc
                  /\ cfs_pc = "receive" => check_state_queue # << >>
            /\ (cfs_pc = "receive" /\ cfs_pc' # "receive")
               => /\ check_state_queue # << >>
                  /\ flight_data' = Head(check_state_queue)
                  /\ check_state_queue' = Tail(check_state_queue)
            /\ (cfs_pc = "receive" /\ check_state_queue = << >>)
               => machine' = machine ]_vars

\* apogee has been declared and latched, the queue is empty and
\* checkFlightState waits at its receive with the machine in DROGUE_DESCENT,
\* while flightStateCallback has run the drogue actuation
C30_ParkedInDrogueDescent ==
    /\ task["checkFlightState"] = "ready"
    /\ task["flightStateCallback"] = "ready"
    /\ cfs_pc = "receive"
    /\ check_state_queue = << >>
    /\ current_state = DROGUE_DESCENT
    /\ apogee_flag = 1
    /\ drogue_calls >= 1

(* ------------------------- apogee cascade ----------------------------- *)
\* C32: within the iteration of checkFlightState that detects apogee,
\* current_state is written APOGEE, then DROGUE_DEPLOY, then DROGUE_DESCENT,
\* in that order; from the write of APOGEE to the write of apogee_flag no
\* sample is received (flight_data and the head of the queue stay as they
\* are), and apogee_flag is written only once DROGUE_DESCENT is published.
C32_CascadeInOrder ==
    [][ LET InCascade == \/ current_state \in { APOGEE, DROGUE_DEPLOY }
                         \/ current_state = DROGUE_DESCENT /\ apogee_flag = 0
        IN  /\ (current_state' = APOGEE /\ current_state # APOGEE)
               => /\ current_state \in { PRE_FLIGHT_GROUND, POWERED_FLIGHT }
                  /\ apogee_flag = 0
            /\ (current_state = APOGEE /\ current_state' # APOGEE)
               => current_state' = DROGUE_DEPLOY
            /\ (current_state' = DROGUE_DEPLOY /\ current_state # DROGUE_DEPLOY)
               => current_state = APOGEE
            /\ (current_state = DROGUE_DEPLOY /\ current_state' # DROGUE_DEPLOY)
               => current_state' = DROGUE_DESCENT
            /\ (current_state' = DROGUE_DESCENT
                   /\ current_state # DROGUE_DESCENT)
               => current_state = DROGUE_DEPLOY
            /\ apogee_flag' # apogee_flag
               => /\ current_state = DROGUE_DESCENT
                  /\ current_state' = DROGUE_DESCENT
                  /\ apogee_flag' = 1
            /\ InCascade
               => /\ flight_data' = flight_data
                  /\ Len(check_state_queue') >= Len(check_state_queue)
                  /\ apogee_val' = apogee_val ]_vars

\* the cascade has run to its end: DROGUE_DESCENT published, apogee_flag
\* set, checkFlightState back at its receive
C32_CascadeCompleted ==
    /\ cascades = 1
    /\ apogee_flag = 1
    /\ current_state = DROGUE_DESCENT
    /\ cfs_pc = "receive"

(* ------------------------ landing transition -------------------------- *)
\* C33: whenever POST_FLIGHT_GROUND is written, the value of current_state
\* before the write is MAIN_DESCENT or POST_FLIGHT_GROUND.
C33_GroundOnlyFromMainDescent ==
    [][ current_state' = POST_FLIGHT_GROUND
           => current_state \in { MAIN_DESCENT, POST_FLIGHT_GROUND } ]_vars

(* ------------------------- end of the replay -------------------------- *)
\* C34: in replay mode checkFlightState is not suspended on DONE_TESTING
\* while a sample sent by loop is still in check_state_queue or still being
\* evaluated: every sample sent is received and its evaluation completed.
C34_NotSuspendedWithBacklog ==
    ( /\ current_test_state = DONE_TESTING
      /\ task["checkFlightState"] = "suspended" )
        => /\ check_state_queue = << >>
           /\ cfs_pc = "receive"

(* ------------- start-up in test mode, statement by statement ---------- *)
\* main.cpp:1747, 1758, 1769: the sensor tasks in the order setup() creates
\* them
ProducerOrder == << "readAccelerationTask", "readAltimeterTask", "readGPSTask" >>

\* the positions of setup() before the xTaskCreate and before the vTaskSuspend
\* of each sensor task
CreatePc == << "create_1", "create_2", "create_3" >>

SuspendPc == << "suspend_1", "suspend_2", "suspend_3" >>

\* main.cpp:1603-1683 in test mode: ring buffer, mode flags, queues
setup_begin ==
    /\ firmware = "hil"
    /\ main_pc = "setup"
    /\ LET m == checkRunTestToggle(SET_TEST_MODE_PIN, SET_DAQ_MODE_PIN) IN
       /\ m.daq = 0 /\ m.test = 1
       /\ TEST_MODE' = m.test
       /\ DAQ_MODE' = m.daq
    /\ kalman_filter_queue_handle' \in xQueueCreate
    /\ altitude_ring_buffer' = ring_buffer_init
    /\ main_pc' = CreatePc[1]
    /\ UNCHANGED << firmware, DEBUG_TO_TERMINAL, LOG_TO_MEMORY,
                    SET_TEST_MODE_PIN, SET_DAQ_MODE_PIN, operation_mode, col2, daq_vars,
                    sub_check_state, current_test_state, replay, task,
                    check_state_queue, current_state, apogee_flag,
                    main_eject_flag, check_done_flag, apogee_val, oldest_val,
                    cfs_pc, flight_data, call_vars, cascades, fan_vars >>

\* main.cpp:1747, 1758, 1769: xTaskCreate returns with the new task ready to
\* run, at priority 2
setup_xTaskCreate(i) ==
    /\ main_pc = CreatePc[i]
    /\ task' = [task EXCEPT ![ProducerOrder[i]] = "ready"]
    /\ main_pc' = SuspendPc[i]
    /\ UNCHANGED << mode_vars, sub_check_state, current_test_state, replay,
                    check_state_queue, fsm_vars, call_vars, cascades,
                    fan_vars >>

\* main.cpp:1748, 1759, 1770: the statement after the creation suspends the
\* task
setup_vTaskSuspend(i) ==
    /\ main_pc = SuspendPc[i]
    /\ task' = [task EXCEPT ![ProducerOrder[i]] = "suspended"]
    /\ main_pc' = IF i < Len(ProducerOrder) THEN CreatePc[i + 1]
                  ELSE "create_rest"
    /\ UNCHANGED << mode_vars, sub_check_state, current_test_state, replay,
                    check_state_queue, fsm_vars, call_vars, cascades,
                    fan_vars >>

\* main.cpp:1780-1885: the other tasks are created, suspended and resumed;
\* the resumes of the three sensor tasks are commented out
setup_rest ==
    /\ main_pc = "create_rest"
    /\ task' = TasksAfterHilSetup
    /\ main_pc' = "loop"
    /\ UNCHANGED << mode_vars, sub_check_state, current_test_state, replay,
                    check_state_queue, fsm_vars, call_vars, cascades,
                    fan_vars >>

\* the test jumper fitted, the short recorded flight on the card, the
\* never-written altitude fields of the sensor packets holding any value
InitStartup ==
    /\ firmware = "hil"
    /\ DEBUG_TO_TERMINAL = 0
    /\ LOG_TO_MEMORY = 0
    /\ SET_TEST_MODE_PIN = 0
    /\ SET_DAQ_MODE_PIN = 1
    /\ acc_data_lcl \in Garbage
    /\ gps_data_lcl \in Garbage
    /\ col2 = << 0, 10, 30, 50, 40, 10, 0 >>
    /\ tx_pending = << >>
    /\ InitEstimator
    /\ InitCommon

NextStartup ==
    \/ setup_begin
    \/ \E i \in 1..Len(ProducerOrder) : setup_xTaskCreate(i)
    \/ \E i \in 1..Len(ProducerOrder) : setup_vTaskSuspend(i)
    \/ setup_rest
    \/ readAccelerationTask
    \/ readAltimeterTask
    \/ readGPSTask
    \/ LoopSubsystemCheck
    \/ LoopReplayStart
    \/ LoopReplayRow
    \/ LoopReplayLastPass
    \/ LoopDoneTesting
    \/ checkFlightState
    \/ flightStateCallback

SpecStartup == InitStartup /\ [][NextStartup]_vars

\* C35: in test mode no sensor task runs a pass, and every packet in
\* check_state_queue, and every packet checkFlightState has received, was
\* sent by the replay loop.
C35_OnlyReplayFeedsEvaluation ==
    LET FromReplay(pkt) == pkt.src \in { "file", "past_end" }
    IN  (TEST_MODE = 1 /\ DAQ_MODE = 0)
           => /\ \A p \in Producers : samples[p] = 0
              /\ \A k \in 1..Len(check_state_queue) :
                    FromReplay(check_state_queue[k])
              /\ flight_data # NoPacket => FromReplay(flight_data)

(* -------------------- source of the altitude samples ------------------ *)
\* C36: in the flight build every packet checkFlightState evaluates was
\* sent by readAltimeterTask and carries the altitude read for it; no
\* packet of readAccelerationTask or readGPSTask is evaluated.
C36_OnlyAltimeterSamplesEvaluated ==
    (firmware = "flight" /\ flight_data # NoPacket)
        => /\ flight_data.src = "alt"
           /\ status # 0 => flight_data.altitude = a

(* ------------------------------ coasting ------------------------------ *)
\* C37: current_state never holds COASTING, and a step that writes APOGEE
\* finds current_state at PRE_FLIGHT_GROUND or POWERED_FLIGHT.
C37_CoastingNeverTaken ==
    /\ [](current_state # COASTING)
    /\ [][ (current_state' = APOGEE /\ current_state # APOGEE)
              => current_state \in { PRE_FLIGHT_GROUND, POWERED_FLIGHT } ]_vars

\* apogee declared on a sample above the launch window (5 + 20), where a
\* coasting phase would have been
C37_ApogeeFromPoweredFlight ==
    /\ current_state = APOGEE
    /\ cfs_pc = "apogee"
    /\ oldest_val > LAUNCH_DETECTION_THRESHOLD + LAUNCH_DETECTION_ALTITUDE_WINDOW
    /\ flight_data.altitude >= LAUNCH_DETECTION_THRESHOLD

(* ------------------- data acquisition over Serial --------------------- *)
\* the clock advances in steps of TickMs up to MaxTicks steps; Serial holds
\* at most MaxRx unread characters
TickMs == 2000
MaxTicks == 6
MaxRx == 2

\* the mode variables other than those of the data acquisition
pin_vars == << firmware, DEBUG_TO_TERMINAL, LOG_TO_MEMORY, SET_TEST_MODE_PIN,
               SET_DAQ_MODE_PIN, DAQ_MODE, TEST_MODE, operation_mode, col2,
               kalman_filter_queue_handle >>

DigitChars == << "0", "1", "2", "3", "4", "5", "6", "7", "8", "9" >>

\* isDigit(ch)
isDigit(ch) == \E i \in 1..Len(DigitChars) : DigitChars[i] = ch

\* ch - '0' for a digit
DigitValue(ch) == (CHOOSE i \in 1..Len(DigitChars) : DigitChars[i] = ch) - 1

\* the character code of a digit, '0' = 48
CharCode(ch) == 48 + DigitValue(ch)

\* what the transmitting PC sends after the board is reset: "2" ends the
\* subsystem check, "1" and a newline is SOH, then the lines of the file.
\* The last script is one line of MAX_CSV_LENGTH + 1 characters without a
\* newline.
LongLine == [i \in 1..(MAX_CSV_LENGTH + 1) |-> "x"]

Scripts ==
    { << "2", "1", "\n", "a", "b", "\n", "c", "\n" >>,
      << "2", "4", "\n", "7", "x", "1", "\n", "a", "\n" >>,
      << "2", "1", "\n" >> \o LongLine }

\* millis() read later returns a later time
Tick ==
    /\ main_pc = "loop"
    /\ current_DAQ_state = HANDSHAKE
    /\ millis < MaxTicks * TickMs
    /\ millis' = millis + TickMs
    /\ UNCHANGED << pin_vars, loop_vars, task, check_state_queue, fsm_vars,
                    call_vars, cascades, fan_vars, current_DAQ_state,
                    SOH_recvd_flag, value, last_NAK_time, test_data_buffer,
                    test_data_serial_index, test_data_file, nak_sent,
                    serial_rx, tx_pending >>

\* the next character of the transmitter arrives on Serial
SerialArrive ==
    /\ tx_pending # << >>
    /\ Len(serial_rx) < MaxRx
    /\ serial_rx' = Append(serial_rx, Head(tx_pending))
    /\ tx_pending' = Tail(tx_pending)
    /\ UNCHANGED << pin_vars, loop_vars, task, check_state_queue, fsm_vars,
                    call_vars, cascades, fan_vars, current_DAQ_state,
                    SOH_recvd_flag, value, last_NAK_time, test_data_buffer,
                    test_data_serial_index, test_data_file, millis,
                    nak_sent >>

\* main.cpp:1906-1915: the subsystem check of loop() reading one character
\* of Serial
LoopSubsystemCheckSerial ==
    /\ firmware = "hil"
    /\ main_pc = "loop"
    /\ sub_check_state = SUB_SYSTEM_CHECK
    /\ serial_rx # << >>
    /\ serial_rx' = Tail(serial_rx)
    /\ sub_check_state' = IF Head(serial_rx) = "2" THEN SUBSYSTEM_DONE_CHECK
                          ELSE SUB_SYSTEM_CHECK
    /\ UNCHANGED << pin_vars, main_pc, current_test_state, replay, task,
                    check_state_queue, fsm_vars, call_vars, cascades,
                    fan_vars, current_DAQ_state, SOH_recvd_flag, value,
                    last_NAK_time, test_data_buffer, test_data_serial_index,
                    test_data_file, millis, nak_sent, tx_pending >>

\* main.cpp:563-582: the result of ParseSerialNumeric(v) on the flag and
\* the state
ParseSerialNumeric(v) ==
    IF v = 1
    THEN [ SOH_recvd_flag |-> 1, current_DAQ_state |-> RECEIVE_TEST_DATA ]
    ELSE [ SOH_recvd_flag |-> SOH_recvd_flag,
           current_DAQ_state |-> current_DAQ_state ]

\* main.cpp:587-613: handshakeSerialEvent, as the values it leaves
handshakeSerialEvent ==
    IF serial_rx = << >>
    THEN [ value |-> value, SOH_recvd_flag |-> SOH_recvd_flag,
           current_DAQ_state |-> current_DAQ_state ]
    ELSE LET ch == Head(serial_rx) IN
         IF isDigit(ch)
         THEN [ value |-> value * CharCode(ch) + DigitValue(ch),
                SOH_recvd_flag |-> SOH_recvd_flag,
                current_DAQ_state |-> current_DAQ_state ]
         ELSE IF ch = "\n"
              THEN [ value |-> 0,
                     SOH_recvd_flag |-> ParseSerialNumeric(value).SOH_recvd_flag,
                     current_DAQ_state |->
                         ParseSerialNumeric(value).current_DAQ_state ]
              ELSE [ value |-> value, SOH_recvd_flag |-> SOH_recvd_flag,
                     current_DAQ_state |-> current_DAQ_state ]

\* main.cpp:682-694: case HANDSHAKE of prepareForDataReceive
DAQ_Handshake ==
    /\ current_DAQ_state = HANDSHAKE
    /\ LET h == handshakeSerialEvent IN
       /\ serial_rx' = IF serial_rx = << >> THEN serial_rx ELSE Tail(serial_rx)
       /\ value' = h.value
       /\ SOH_recvd_flag' = h.SOH_recvd_flag
       /\ current_DAQ_state' = h.current_DAQ_state
       /\ IF h.SOH_recvd_flag = 0 /\ millis - last_NAK_time > NAK_INTERVAL
          THEN /\ nak_sent' = nak_sent + 1
               /\ last_NAK_time' = millis
          ELSE UNCHANGED << nak_sent, last_NAK_time >>
    /\ UNCHANGED << test_data_buffer, test_data_serial_index, test_data_file,
                    millis, tx_pending >>

\* main.cpp:622-657: receiveTestDataSerialEvent; a character stored at an
\* index past the end of test_data_buffer lands outside it
receiveTestDataSerialEvent ==
    /\ current_DAQ_state = RECEIVE_TEST_DATA
    /\ test_data_serial_index <= MAX_CSV_LENGTH
    /\ IF serial_rx # << >>
       THEN /\ serial_rx' = Tail(serial_rx)
            /\ IF Head(serial_rx) # "\n"
               THEN /\ test_data_buffer' =
                          IF test_data_serial_index < MAX_CSV_LENGTH
                          THEN Append(test_data_buffer, Head(serial_rx))
                          ELSE test_data_buffer
                    /\ test_data_serial_index' = test_data_serial_index + 1
                    /\ UNCHANGED test_data_file
               ELSE /\ test_data_file' = Append(test_data_file, test_data_buffer)
                    /\ test_data_buffer' = << >>
                    /\ test_data_serial_index' = 0
            /\ UNCHANGED current_DAQ_state
       ELSE /\ current_DAQ_state' = FINISH_DATA_RECEIVE
            /\ UNCHANGED << serial_rx, test_data_buffer,
                            test_data_serial_index, test_data_file >>
    /\ UNCHANGED << SOH_recvd_flag, value, last_NAK_time, millis, nak_sent,
                    tx_pending >>

\* main.cpp:1917-1921, 666-711: the pass of loop() in DAQ mode
prepareForDataReceive ==
    /\ firmware = "hil"
    /\ main_pc = "loop"
    /\ sub_check_state # SUB_SYSTEM_CHECK
    /\ DAQ_MODE = 1
    /\ \/ DAQ_Handshake
       \/ receiveTestDataSerialEvent
    /\ UNCHANGED << pin_vars, loop_vars, task, check_state_queue, fsm_vars,
                    call_vars, cascades, fan_vars >>

\* the DAQ jumper fitted, the transmitter about to send one of the scripts
InitDAQ ==
    /\ firmware = "hil"
    /\ DEBUG_TO_TERMINAL = 0
    /\ LOG_TO_MEMORY = 0
    /\ SET_TEST_MODE_PIN = 1
    /\ SET_DAQ_MODE_PIN = 0
    /\ acc_data_lcl = 0
    /\ gps_data_lcl = 0
    /\ col2 = << >>
    /\ tx_pending \in Scripts
    /\ InitEstimator
    /\ InitCommon

NextDAQ ==
    \/ setup
    \/ Tick
    \/ SerialArrive
    \/ LoopSubsystemCheckSerial
    \/ prepareForDataReceive

SpecDAQ == InitDAQ /\ [][NextDAQ]_vars

\* loop() is called again and again by the Arduino main task: neither of
\* its passes is put off for ever. Nothing obliges the transmitter to send.
FairSpecDAQ ==
    /\ SpecDAQ
    /\ WF_vars(LoopSubsystemCheckSerial)
    /\ WF_vars(prepareForDataReceive)

(* -------------------------- XMODEM handshake -------------------------- *)
\* C31: in DAQ mode, while current_DAQ_state is HANDSHAKE and SOH has not
\* been received, a NAK is sent whenever more than NAK_INTERVAL has elapsed
\* since the last one, and only then; when SOH (the number 1) is received
\* the state becomes RECEIVE_TEST_DATA, and no NAK is sent afterwards.
C31_NakUntilSoh ==
    /\ [][ /\ nak_sent' # nak_sent
              => /\ current_DAQ_state = HANDSHAKE
                 /\ SOH_recvd_flag' = 0
                 /\ millis - last_NAK_time > NAK_INTERVAL
                 /\ nak_sent' = nak_sent + 1
                 /\ last_NAK_time' = millis
           /\ (SOH_recvd_flag = 0 /\ SOH_recvd_flag' = 1)
              => current_DAQ_state' = RECEIVE_TEST_DATA
           /\ SOH_recvd_flag = 1
              => /\ nak_sent' = nak_sent
                 /\ SOH_recvd_flag' = 1
                 /\ current_DAQ_state' # HANDSHAKE ]_vars
    /\ ( /\ main_pc = "loop"
         /\ DAQ_MODE = 1
         /\ current_DAQ_state = HANDSHAKE
         /\ SOH_recvd_flag = 0
         /\ millis - last_NAK_time > NAK_INTERVAL )
          ~> (millis - last_NAK_time <= NAK_INTERVAL \/ SOH_recvd_flag = 1)

(* ----------------------- receiving the test data ---------------------- *)
\* C38: when current_DAQ_state becomes FINISH_DATA_RECEIVE every line the
\* transmitter sends has been appended to the test data file: no
\* newline-terminated line is still to be sent or still unread on Serial.
C38_AllLinesStoredBeforeFinish ==
    LET HasNewline(chars) == \E i \in 1..Len(chars) : chars[i] = "\n"
    IN  current_DAQ_state = FINISH_DATA_RECEIVE
           => /\ ~HasNewline(tx_pending)
              /\ ~HasNewline(serial_rx)

\* C39: test_data_serial_index stays within test_data_buffer,
\* 0 <= test_data_serial_index < MAX_CSV_LENGTH, whatever is received.
C39_IndexWithinBuffer ==
    /\ 0 <= test_data_serial_index
    /\ test_data_serial_index < MAX_CSV_LENGTH

====
